---- MODULE Spec2Model ----
(***************************************************************************)
(* A model of the Librato Metrics backend of statsd                        *)
(* (src/backends/librato.js): the module-level state, the three exported   *)
(* operations init / flush / stats, and the callbacks of a delivery (the   *)
(* response callback, its 'data' handlers, the request's 'error' handler   *)
(* and the retry timer callback).                                          *)
(*                                                                         *)
(* JavaScript values: a string-valued or boolean-valued variable that may  *)
(* be undefined holds the string "undefined"; booleans are "true" and      *)
(* "false".  Metric names are sequences of one-character strings.          *)
(***************************************************************************)
EXTENDS Integers, Sequences, FiniteSets, TLC

VARIABLES
    debug,            \* var debug
    api,              \* var api
    email,            \* var email
    token,            \* var token
    sourceName,       \* var sourceName
    legacyCounters,   \* var legacyCounters
    basicAuthHeader,  \* var basicAuthHeader
    flushInterval,    \* var flushInterval
    libratoCounters,  \* var libratoCounters: key -> [value, lastUpdate]
    libratoStats,     \* var libratoStats: a map with at most the key last_flush
    now,              \* the wall clock, in seconds (new Date().getTime() / 1000)
    requests,         \* the HTTP requests in flight, in the order they were made
    timers,           \* the pending setTimeout callbacks, in the order they were set
    loaded,           \* the host registered the backend (an init returned true)
    raised,           \* an exception escaped a callback into the host's event
                      \* loop: the process ends, no further step is taken
    log,              \* the levels util.log was called at
    flushes,          \* the number of flush calls so far
    posts,            \* per flush call, how many times its payload was POSTed
    errors,           \* per flush call, how many of its requests failed to connect
    lastCall,         \* the last flush call: its arguments and what it built
    run,              \* per counter key, the deltas of its current run of calls
    lastSuccess,      \* libratoStats as it would be if only a 2xx/3xx response set it
    lastInit,         \* what the last init call returned
    lastConfig,       \* the config object the last init call was given
    emitted,          \* the last stats call: the writeCb calls it made
    sanitized         \* the last sanitize_name call: its argument and result

vars == <<debug, api, email, token, sourceName, legacyCounters, basicAuthHeader,
          flushInterval, libratoCounters, libratoStats, now, requests, timers,
          loaded, raised, log, flushes, posts, errors, lastCall, run,
          lastSuccess, lastInit, lastConfig, emitted, sanitized>>

\* what the calls of stats and of sanitize_name on its own leave behind
probe_vars == <<emitted, sanitized>>

config_vars == <<debug, api, email, token, sourceName, legacyCounters,
                 basicAuthHeader, flushInterval>>

----------------------------------------------------------------------------
(* Bounds of the model *)

MaxFlushes == 2     \* flush calls in a behaviour
MaxTime == 1        \* the clock runs from 0 to MaxTime
MaxChunks == 2      \* 'data' events of one response
MaxInFlight == 2    \* requests and retry timers outstanding at a time
MaxShortLen == 3    \* characters of a short name, and of the tail of a long one

----------------------------------------------------------------------------
(* JavaScript values *)

Undefined == "undefined"
JsTrue == "true"
JsFalse == "false"

\* ToBoolean of the values this model uses
Truthy(v) == v \notin {Undefined, JsFalse, ""}

\* obj.f: undefined when the object has no such property
Get(obj, f) == IF f \in DOMAIN obj THEN obj[f] ELSE Undefined

\* the empty object {}
EmptyObject == [k \in {} |-> 0]

\* obj with obj[k] = v
Put(obj, k, v) == [x \in DOMAIN obj \cup {k} |-> IF x = k THEN v ELSE obj[x]]

----------------------------------------------------------------------------
(* sanitize_name *)

MaxNameLen == 255

Lower == {"a", "b", "c", "d", "e", "f", "g", "h", "i", "j", "k", "l", "m",
          "n", "o", "p", "q", "r", "s", "t", "u", "v", "w", "x", "y", "z"}
Upper == {"A", "B", "C", "D", "E", "F", "G", "H", "I", "J", "K", "L", "M",
          "N", "O", "P", "Q", "R", "S", "T", "U", "V", "W", "X", "Y", "Z"}
Digit == {"0", "1", "2", "3", "4", "5", "6", "7", "8", "9"}

\* the characters the class [^-.:_\w] does not match
ValidChars == Lower \cup Upper \cup Digit \cup {"-", ".", ":", "_"}
ValidChar(c) == c \in ValidChars

\* sanitize_name with the g flag on the regular expression: every run of
\* invalid characters is replaced
MutSanitizeEveryRun(name) ==
    LET kept == SelectSeq([i \in 1..Len(name) |-> i],
                          LAMBDA i : \/ ValidChar(name[i])
                                     \/ i = 1
                                     \/ ValidChar(name[i - 1]))
        replaced == [k \in 1..Len(kept) |->
                        IF ValidChar(name[kept[k]]) THEN name[kept[k]] ELSE "_"]
    IN SubSeq(replaced, 1, IF Len(replaced) < MaxNameLen THEN Len(replaced)
                                                           ELSE MaxNameLen)

\* name.replace(/[^-.:_\w]+/, '_').substr(0,255): the regular expression has
\* no g flag, so only the leftmost (maximal) run is replaced
sanitize_name(name) ==
    LET bad == {i \in 1..Len(name) : ~ValidChar(name[i])}
        replaced ==
            IF bad = {} THEN name
            ELSE LET first == CHOOSE i \in bad : \A j \in bad : i <= j
                     after == {i \in first..Len(name) + 1 :
                                  i = Len(name) + 1 \/ ValidChar(name[i])}
                     stop == CHOOSE i \in after : \A j \in after : i <= j
                 IN SubSeq(name, 1, first - 1) \o <<"_">>
                        \o SubSeq(name, stop, Len(name))
    IN SubSeq(replaced, 1, IF Len(replaced) < MaxNameLen THEN Len(replaced)
                                                           ELSE MaxNameLen)

----------------------------------------------------------------------------
(* The configurations the host hands to init *)

Emails == {Undefined, "user@example.com"}
Tokens == {Undefined, "apikey"}
Apis == {Undefined}
Sources == {Undefined}
LegacyFlags == {Undefined, JsTrue}
DebugFlags == {Undefined, JsTrue}
FlushIntervals == {"10000"}

\* "librato": {api, email, token, source, legacyCounters}
NestedConfigs ==
    {[debug |-> d, flushInterval |-> f,
      librato |-> [api |-> a, email |-> e, token |-> t, source |-> s,
                   legacyCounters |-> l]] :
        d \in DebugFlags, f \in FlushIntervals, a \in Apis, e \in Emails,
        t \in Tokens, s \in Sources, l \in LegacyFlags}

\* the deprecated top-level keys
FlatConfigs ==
    {[debug |-> d, flushInterval |-> f, libratoHost |-> a, libratoUser |-> e,
      libratoApiKey |-> t, libratoSource |-> s] :
        d \in DebugFlags, f \in FlushIntervals, a \in Apis, e \in Emails,
        t \in Tokens, s \in Sources}

Configs == NestedConfigs \cup FlatConfigs

----------------------------------------------------------------------------
(* init_librato *)

\* 'Basic ' + new Buffer(email + ':' + token).toString('base64')
build_basic_auth(e, t) == "Basic base64(" \o e \o ":" \o t \o ")"

\* Resolved taking a field the nested block omits from the deprecated key
MutResolvedFallsBackToFlat(config) ==
    LET or(a, b) == IF Truthy(a) THEN a ELSE b
    IN IF "librato" \in DOMAIN config
       THEN [api |-> or(Get(config.librato, "api"), Get(config, "libratoHost")),
             email |-> or(Get(config.librato, "email"),
                          Get(config, "libratoUser")),
             token |-> or(Get(config.librato, "token"),
                          Get(config, "libratoApiKey")),
             sourceName |-> or(Get(config.librato, "source"),
                               Get(config, "libratoSource")),
             legacyCounters |-> Get(config.librato, "legacyCounters")]
       ELSE [api |-> Get(config, "libratoHost"),
             email |-> Get(config, "libratoUser"),
             token |-> Get(config, "libratoApiKey"),
             sourceName |-> Get(config, "libratoSource"),
             legacyCounters |-> legacyCounters]

\* the values init_librato assigns to api, email, token, sourceName and
\* legacyCounters
Resolved(config) ==
    IF "librato" \in DOMAIN config
    THEN [api |-> Get(config.librato, "api"),
          email |-> Get(config.librato, "email"),
          token |-> Get(config.librato, "token"),
          sourceName |-> Get(config.librato, "source"),
          legacyCounters |-> Get(config.librato, "legacyCounters")]
    ELSE [api |-> Get(config, "libratoHost"),
          email |-> Get(config, "libratoUser"),
          token |-> Get(config, "libratoApiKey"),
          sourceName |-> Get(config, "libratoSource"),
          legacyCounters |-> legacyCounters]

\* InitReturns testing the email alone
MutInitReturnsEmailOnly(config) ==
    LET r == Resolved(config)
    IN IF ~Truthy(r.email) THEN JsFalse ELSE JsTrue

\* the value init_librato returns
InitReturns(config) ==
    LET r == Resolved(config)
    IN IF ~Truthy(r.email) \/ ~Truthy(r.token) THEN JsFalse ELSE JsTrue

init_librato(config) ==
    LET r == Resolved(config)
        ret == InitReturns(config)
    IN /\ debug' = Get(config, "debug")
       /\ api' = r.api
       /\ email' = r.email
       /\ token' = r.token
       /\ sourceName' = r.sourceName
       /\ legacyCounters' = r.legacyCounters
       /\ IF ret = JsFalse
          THEN /\ log' = log \cup {"error"}
               /\ UNCHANGED <<flushInterval, basicAuthHeader>>
          ELSE /\ flushInterval' = Get(config, "flushInterval")
               /\ basicAuthHeader' = build_basic_auth(r.email, r.token)
               /\ UNCHANGED log
       /\ lastInit' = ret
       /\ lastConfig' = config
       /\ loaded' = (loaded \/ ret = JsTrue)

----------------------------------------------------------------------------
(* The snapshots the host hands to flush *)

NumStatsKey == <<"n", "u", "m", "S", "t", "a", "t", "s">>
HitsKey == <<"a", " ", "b">>

\* the counter keys, in the order a for-in loop over the maps visits them
CounterKeys == <<HitsKey, NumStatsKey>>
TimerKeys == <<<<"t">>, <<"u">>>>
GaugeKeys == <<<<"g">>>>

Range(s) == {s[i] : i \in 1..Len(s)}
SubMaps(keys, values) ==
    UNION {[d -> values] : d \in SUBSET Range(keys)}

Deltas == {1, 2}
SampleLists == {<<>>, <<3, 1>>}
GaugeValues == {7}

\* every combination of counters, with the first timer key and the gauge key
Snapshots ==
    [counters : SubMaps(CounterKeys, Deltas),
     timers : [{TimerKeys[1]} -> SampleLists],
     gauges : [Range(GaugeKeys) -> GaugeValues]]

\* the keys of obj, as for (key in obj) visits them
KeysOf(order, obj) == SelectSeq(order, LAMBDA k : k \in DOMAIN obj)

----------------------------------------------------------------------------
(* flush_stats: the three loops that build the gauges and counters lists *)

\* CounterStep without the continue of line 143: in legacy mode the key is
\* pushed as a gauge and then accumulated and pushed as a counter too
MutCounterStepFallsThrough(key, delta, ts, st) ==
    LET ledger ==
            IF key \notin DOMAIN st.ledger
            THEN Put(st.ledger, key, [value |-> delta, lastUpdate |-> ts])
            ELSE Put(st.ledger, key,
                     [value |-> st.ledger[key].value + delta,
                      lastUpdate |-> ts])
    IN [ledger |-> ledger,
        counters |-> Append(st.counters, [name |-> sanitize_name(key),
                                          value |-> ledger[key].value]),
        gauges |-> IF Truthy(legacyCounters)
                   THEN Append(st.gauges, [name |-> sanitize_name(key),
                                           value |-> delta])
                   ELSE st.gauges]

\* lines 140-155, the body of the loop over metrics.counters:
\* st = [ledger, counters, gauges]
CounterStep(key, delta, ts, st) ==
    IF Truthy(legacyCounters)
    THEN [st EXCEPT !.gauges =
             Append(@, [name |-> sanitize_name(key), value |-> delta])]
    ELSE LET ledger ==
                IF key \notin DOMAIN st.ledger
                THEN Put(st.ledger, key, [value |-> delta, lastUpdate |-> ts])
                ELSE Put(st.ledger, key,
                         [value |-> st.ledger[key].value + delta,
                          lastUpdate |-> ts])
         IN [st EXCEPT !.ledger = ledger,
                       !.counters =
                           Append(@, [name |-> sanitize_name(key),
                                      value |-> ledger[key].value])]

\* for (key in metrics.counters)
RECURSIVE CounterLoop(_, _, _, _)
CounterLoop(keys, metrics, ts, st) ==
    IF keys = <<>> THEN st
    ELSE CounterLoop(Tail(keys), metrics, ts,
             CounterStep(Head(keys), metrics.counters[Head(keys)], ts, st))

\* for (var i = 0; i < metrics.timers[key].length; i++):
\* acc = [min, max, sum, sumOfSquares], min and max null before the first sample
RECURSIVE SampleLoop(_, _, _)
SampleLoop(samples, i, acc) ==
    IF i > Len(samples) THEN acc
    ELSE LET val == samples[i]
             min == IF acc.seen = 0 \/ val < acc.min THEN val ELSE acc.min
             max == IF acc.seen = 0 \/ val > acc.max THEN val ELSE acc.max
         IN SampleLoop(samples, i + 1,
                [seen |-> 1, min |-> min, max |-> max, sum |-> acc.sum + val,
                 sumOfSquares |-> acc.sumOfSquares + val * val])

\* TimerStep without the continue of line 166: a key with no samples is pushed
\* too
MutTimerStepNoSkip(key, samples, gauges) ==
    LET acc == SampleLoop(samples, 1,
                   [seen |-> 0, min |-> 0, max |-> 0, sum |-> 0,
                    sumOfSquares |-> 0])
    IN Append(gauges,
           [name |-> sanitize_name(key), count |-> Len(samples),
            sum |-> acc.sum, sum_squares |-> acc.sumOfSquares,
            min |-> acc.min, max |-> acc.max])

\* lines 159-188, the body of the loop over metrics.timers
TimerStep(key, samples, gauges) ==
    LET count == Len(samples)
        acc == SampleLoop(samples, 1,
                   [seen |-> 0, min |-> 0, max |-> 0, sum |-> 0,
                    sumOfSquares |-> 0])
    IN IF count = 0
       THEN gauges
       ELSE Append(gauges,
                [name |-> sanitize_name(key), count |-> count,
                 sum |-> acc.sum, sum_squares |-> acc.sumOfSquares,
                 min |-> acc.min, max |-> acc.max])

\* for (key in metrics.timers)
RECURSIVE TimerLoop(_, _, _)
TimerLoop(keys, metrics, gauges) ==
    IF keys = <<>> THEN gauges
    ELSE TimerLoop(Tail(keys), metrics,
             TimerStep(Head(keys), metrics.timers[Head(keys)], gauges))

\* for (key in metrics.gauges)
RECURSIVE GaugeLoop(_, _, _)
GaugeLoop(keys, metrics, gauges) ==
    IF keys = <<>> THEN gauges
    ELSE GaugeLoop(Tail(keys), metrics,
             Append(gauges, [name |-> sanitize_name(Head(keys)),
                             value |-> metrics.gauges[Head(keys)]]))

\* CountStats counting the gauges only
MutCountStatsGaugesOnly(gauges, counters) == Len(gauges)

\* numStats = gauges.length + counters.length
CountStats(gauges, counters) == Len(gauges) + Len(counters)

\* PublishNumStats adding the amount to the ledger entry in legacy mode too
MutPublishNumStatsKeepsLedger(st, numStats, ts) ==
    LET ledger ==
            IF NumStatsKey \in DOMAIN st.ledger
            THEN Put(st.ledger, NumStatsKey,
                     [value |-> st.ledger[NumStatsKey].value + numStats,
                      lastUpdate |-> ts])
            ELSE Put(st.ledger, NumStatsKey,
                     [value |-> numStats, lastUpdate |-> ts])
    IN IF Truthy(legacyCounters)
       THEN [st EXCEPT !.ledger = ledger,
                       !.gauges =
                           Append(@, [name |-> NumStatsKey, value |-> numStats])]
       ELSE [st EXCEPT !.ledger = ledger,
                       !.counters =
                           Append(@, [name |-> NumStatsKey,
                                      value |-> ledger[NumStatsKey].value])]

\* the numStats record: a gauge in legacy mode, else a counter of the ledger
PublishNumStats(st, numStats, ts) ==
    IF Truthy(legacyCounters)
    THEN [st EXCEPT !.gauges =
             Append(@, [name |-> NumStatsKey, value |-> numStats])]
    ELSE LET ledger ==
                IF NumStatsKey \in DOMAIN st.ledger
                THEN Put(st.ledger, NumStatsKey,
                         [value |-> st.ledger[NumStatsKey].value + numStats,
                          lastUpdate |-> ts])
                ELSE Put(st.ledger, NumStatsKey,
                         [value |-> numStats, lastUpdate |-> ts])
         IN [st EXCEPT !.ledger = ledger,
                       !.counters =
                           Append(@, [name |-> NumStatsKey,
                                      value |-> ledger[NumStatsKey].value])]

\* lines 134-212: [ledger, counters, gauges, numStats] as post_metrics is called
BuildLists(ts, metrics) ==
    LET s1 == CounterLoop(KeysOf(CounterKeys, metrics.counters), metrics, ts,
                  [ledger |-> libratoCounters, counters |-> <<>>,
                   gauges |-> <<>>])
        g2 == TimerLoop(KeysOf(TimerKeys, metrics.timers), metrics, s1.gauges)
        g3 == GaugeLoop(KeysOf(GaugeKeys, metrics.gauges), metrics, g2)
        s3 == [s1 EXCEPT !.gauges = g3]
        numStats == CountStats(s3.gauges, s3.counters)
        s4 == PublishNumStats(s3, numStats, ts)
    IN [ledger |-> s4.ledger, counters |-> s4.counters, gauges |-> s4.gauges,
        numStats |-> numStats]

\* lines 216-229: delete the entries whose lastUpdate is not ts
Prune(ledger, ts) ==
    LET toDelete == {key \in DOMAIN ledger : ledger[key].lastUpdate # ts}
    IN [key \in DOMAIN ledger \ toDelete |-> ledger[key]]

----------------------------------------------------------------------------
(* post_metrics and post_payload *)

\* How long to wait before retrying a failed post, in seconds
retryDelay == 5

DefaultApi == "https://metrics-api.librato.com"
DefaultPort == "443"

\* url.parse of the endpoints of Apis and of the default endpoint: a missing
\* part is undefined
UrlParse(u) ==
    CASE u = "https://metrics-api.librato.com" ->
           [protocol |-> "https:", hostname |-> "metrics-api.librato.com",
            port |-> Undefined]
      [] u = "http://localhost:8080" ->
           [protocol |-> "http:", hostname |-> "localhost", port |-> "8080"]
      [] u = "https://proxy.example.com:8443" ->
           [protocol |-> "https:", hostname |-> "proxy.example.com",
            port |-> "8443"]
      [] u = "http://proxy.example.com" ->
           [protocol |-> "http:", hostname |-> "proxy.example.com",
            port |-> Undefined]
      [] OTHER ->
           [protocol |-> Undefined, hostname |-> Undefined, port |-> Undefined]

\* MatchesHttps with the regular expression /http/
MutMatchesHttp(protocol) == protocol \in {"https:", "http:"}

\* protocol.match(/https/)
MatchesHttps(protocol) == protocol \in {"https:"}

\* Math.floor(res.statusCode / 100)
StatusClass(statusCode) == statusCode \div 100

\* The part of the module state a delivery touches, threaded through
\* post_payload and the callbacks: [requests, timers, libratoStats, posts, now]
Heap ==
    [requests |-> requests, timers |-> timers, libratoStats |-> libratoStats,
     posts |-> posts, now |-> now]

\* post_payload without line 77: last_flush is not recorded
MutPostPayloadNoLastFlush(h, cycle, options, proto, payload, retry) ==
    [h EXCEPT !.requests =
                  Append(@, [cycle |-> cycle, options |-> options,
                             proto |-> proto, payload |-> payload,
                             retry |-> retry, phase |-> "sent",
                             statusCode |-> 0, chunks |-> 0, handled |-> 0,
                             attempt |-> h.posts[cycle] + 1]),
              !.posts = [@ EXCEPT ![cycle] = @ + 1]]

\* lines 45-87: make the request, write the payload, record last_flush; the
\* callbacks are the actions below
post_payload(h, cycle, options, proto, payload, retry) ==
    [h EXCEPT !.requests =
                  Append(@, [cycle |-> cycle, options |-> options,
                             proto |-> proto, payload |-> payload,
                             retry |-> retry, phase |-> "sent",
                             statusCode |-> 0, chunks |-> 0, handled |-> 0,
                             attempt |-> h.posts[cycle] + 1]),
              !.posts = [@ EXCEPT ![cycle] = @ + 1],
              !.libratoStats = Put(@, "last_flush", h.now)]

\* the retry flag post_metrics hands to post_payload
FirstAttemptRetry == FALSE

\* lines 89-125
post_metrics(h, cycle, ts, gauges, counters) ==
    LET base == [gauges |-> gauges, counters |-> counters, measure_time |-> ts]
        parsed_host == UrlParse(IF Truthy(api) THEN api ELSE DefaultApi)
        payload == IF Truthy(sourceName)
                   THEN [gauges |-> gauges, counters |-> counters,
                         measure_time |-> ts, source |-> sourceName]
                   ELSE base
        options == [host |-> parsed_host.hostname,
                    port |-> IF Truthy(parsed_host.port) THEN parsed_host.port
                                                         ELSE DefaultPort,
                    path |-> "/v1/metrics",
                    method |-> "POST",
                    headers |-> [Authorization |-> basicAuthHeader,
                                 ContentType |-> "application/json",
                                 UserAgent |-> "librato-statsd/0.1.0"]]
        proto == IF MatchesHttps(IF Truthy(parsed_host.protocol)
                                 THEN parsed_host.protocol ELSE "http:")
                 THEN "https" ELSE "http"
    IN post_payload(h, cycle, options, proto, payload, FirstAttemptRetry)

\* setTimeout(function() { post_payload(options, proto, payload, false); },
\*            retryDelay * 1000)
ScheduleRetry(h, req) ==
    [h EXCEPT !.timers =
         Append(@, [due |-> h.now + retryDelay, cycle |-> req.cycle,
                    options |-> req.options, proto |-> req.proto,
                    payload |-> req.payload])]

\* the retry flag the timer callback hands to post_payload
RetryAttemptRetry == FALSE

\* the timer t when the clock reaches h.now: its callback runs if it is due
FireTimer(h, t) ==
    IF t.due <= h.now
    THEN post_payload(h, t.cycle, t.options, t.proto, t.payload,
                      RetryAttemptRetry)
    ELSE [h EXCEPT !.timers = Append(@, t)]

\* the timer callbacks that are due at h.now run, oldest first
RECURSIVE FireTimers(_, _)
FireTimers(h, pending) ==
    IF pending = <<>> THEN h
    ELSE FireTimers(FireTimer(h, Head(pending)), Tail(pending))

RemoveAt(s, i) == SubSeq(s, 1, i - 1) \o SubSeq(s, i + 1, Len(s))

----------------------------------------------------------------------------
(* The callbacks of a request *)

Statuses == {200, 404, 503}

\* OnData5xx without the test of retry: every 5xx body chunk sets a timer
MutOnData5xxAlwaysRetries(h, lg, req) ==
    [h |-> ScheduleRetry(h, req),
     log |-> IF Truthy(debug) THEN lg \cup {"debug"} ELSE lg]

\* lines 50-62: the 'data' handler of a 5xx response
OnData5xx(h, lg, req) ==
    IF req.retry
    THEN [h |-> ScheduleRetry(h, req),
          log |-> IF Truthy(debug) THEN lg \cup {"debug"} ELSE lg]
    ELSE [h |-> h, log |-> lg \cup {"crit"}]

\* OnData4xx retrying as the 5xx handler does
MutOnData4xxRetries(h, lg, req) ==
    [h |-> ScheduleRetry(h, req),
     log |-> IF Truthy(debug) THEN lg \cup {"debug"} ELSE lg]

\* lines 65-70: the 'data' handler of a 4xx response
OnData4xx(h, lg, req) ==
    [h |-> h, log |-> IF Truthy(debug) THEN lg \cup {"debug"} ELSE lg]

\* lines 78-86: the 'error' handler of the request; logger is not defined in
\* the module, so calling it throws a ReferenceError out of the handler
OnError(h, req) ==
    IF req.retry
    THEN [h |-> ScheduleRetry(h, req), raised |-> FALSE]
    ELSE [h |-> h, raised |-> TRUE]

\* the response callback registers a 'data' handler for these classes only
HasDataHandler(statusCode) == StatusClass(statusCode) \in {4, 5}

----------------------------------------------------------------------------
(* backend_stats *)

\* the keys libratoStats can hold, in the order for (stat in libratoStats)
\* visits them
StatKeys == <<"last_flush">>

\* lines 232-236: the writeCb calls, in order
backend_stats(stats) ==
    LET keys == SelectSeq(StatKeys, LAMBDA k : k \in DOMAIN stats)
    IN [i \in 1..Len(keys) |-> [stat |-> keys[i], value |-> stats[keys[i]]]]

----------------------------------------------------------------------------
(* The state machine *)

NoCall == [cycle |-> 0]

\* stats, or sanitize_name on its own, has not been called
NotCalled == [called |-> FALSE]

\* flush has been called
Called == lastCall.cycle > 0

Init ==
    /\ debug = Undefined
    /\ api = Undefined
    /\ email = Undefined
    /\ token = Undefined
    /\ sourceName = Undefined
    /\ legacyCounters = JsFalse
    /\ basicAuthHeader = Undefined
    /\ flushInterval = Undefined
    /\ libratoCounters = EmptyObject
    /\ libratoStats = EmptyObject
    /\ now = 0
    /\ requests = <<>>
    /\ timers = <<>>
    /\ loaded = FALSE
    /\ raised = FALSE
    /\ log = {}
    /\ flushes = 0
    /\ posts = [c \in 1..MaxFlushes |-> 0]
    /\ errors = [c \in 1..MaxFlushes |-> 0]
    /\ lastCall = NoCall
    /\ run = [k \in Range(CounterKeys) |->
                  [active |-> FALSE, sum |-> 0, dropped |-> FALSE]]
    /\ lastSuccess = EmptyObject
    /\ lastInit = Undefined
    /\ lastConfig = EmptyObject
    /\ emitted = NotCalled
    /\ sanitized = NotCalled

delivery_vars == <<requests, timers, libratoStats, posts, errors>>
flush_vars == <<libratoCounters, flushes, lastCall, run>>

\* exports.init, called by the host once, when it loads the backend
CallInit(config) ==
    /\ ~raised
    /\ lastInit = Undefined
    /\ init_librato(config)
    /\ UNCHANGED <<delivery_vars, flush_vars, now, raised, lastSuccess,
                   probe_vars>>

\* exports.init called again on the loaded module, with a new configuration
CallInitAgain(config) ==
    /\ ~raised
    /\ lastInit # Undefined
    /\ init_librato(config)
    /\ UNCHANGED <<delivery_vars, flush_vars, now, raised, lastSuccess,
                   probe_vars>>

\* the deltas of each counter key over its current run of consecutive calls; in
\* non-legacy mode a run starts with the call that creates the key's ledger
\* entry. dropped: the key was in a snapshot and has been in none since
NextRun(metrics) ==
    [k \in Range(CounterKeys) |->
        IF k \in DOMAIN metrics.counters
        THEN IF run[k].active
             THEN [active |-> TRUE, sum |-> run[k].sum + metrics.counters[k],
                   dropped |-> FALSE]
             ELSE IF Truthy(legacyCounters) \/ k \notin DOMAIN libratoCounters
                  THEN [active |-> TRUE, sum |-> metrics.counters[k],
                        dropped |-> FALSE]
                  ELSE [active |-> FALSE, sum |-> 0, dropped |-> FALSE]
        ELSE [active |-> FALSE, sum |-> 0,
              dropped |-> (run[k].dropped
                           \/ (Called /\ k \in DOMAIN lastCall.metrics.counters))]]

\* exports.flush = flush_stats, called by the host's flush timer with the time
\* of the call
Flush(metrics) ==
    /\ ~raised
    /\ loaded
    /\ flushes < MaxFlushes
    /\ Len(requests) + Len(timers) < MaxInFlight
    /\ LET ts == now
           built == BuildLists(ts, metrics)
           h == post_metrics(Heap, flushes + 1, ts, built.gauges,
                             built.counters)
       IN /\ requests' = h.requests
          /\ timers' = h.timers
          /\ libratoStats' = h.libratoStats
          /\ posts' = h.posts
          /\ libratoCounters' = Prune(built.ledger, ts)
          /\ flushes' = flushes + 1
          /\ lastCall' = [cycle |-> flushes + 1, ts |-> ts,
                          metrics |-> metrics,
                          legacy |-> Truthy(legacyCounters),
                          gauges |-> built.gauges,
                          counters |-> built.counters,
                          numStats |-> built.numStats]
          /\ run' = NextRun(metrics)
    /\ UNCHANGED <<config_vars, now, loaded, raised, log, errors,
                   lastSuccess, lastInit, lastConfig, probe_vars>>

\* lines 47-72: the response callback of request i; n 'data' events follow
Response(i, statusCode, n) ==
    /\ ~raised
    /\ requests[i].phase = "sent"
    /\ requests' =
           IF HasDataHandler(statusCode) /\ n > 0
           THEN [requests EXCEPT ![i].phase = "response",
                                 ![i].statusCode = statusCode,
                                 ![i].chunks = n]
           ELSE RemoveAt(requests, i)
    /\ lastSuccess' =
           IF StatusClass(statusCode) \in {2, 3}
           THEN Put(lastSuccess, "last_flush", now)
           ELSE lastSuccess
    /\ UNCHANGED <<config_vars, flush_vars, libratoStats, timers, posts,
                   errors, now, loaded, raised, log, lastInit, lastConfig,
                   probe_vars>>

\* Data with a handler that also drops the ledger entries of its payload's
\* counters
MutDataDropsLedger(i) ==
    /\ ~raised
    /\ requests[i].phase = "response"
    /\ requests[i].chunks > 0
    /\ LET req == requests[i]
           rest == IF req.chunks = 1
                   THEN RemoveAt(requests, i)
                   ELSE [requests EXCEPT ![i].chunks = @ - 1,
                                         ![i].handled = @ + 1]
           r5 == IF StatusClass(req.statusCode) = 5
                 THEN OnData5xx([Heap EXCEPT !.requests = rest], log, req)
                 ELSE [h |-> [Heap EXCEPT !.requests = rest], log |-> log]
           r4 == IF StatusClass(req.statusCode) = 4
                 THEN OnData4xx(r5.h, r5.log, req)
                 ELSE r5
       IN /\ requests' = r4.h.requests
          /\ timers' = r4.h.timers
          /\ libratoStats' = r4.h.libratoStats
          /\ posts' = r4.h.posts
          /\ log' = r4.log
    /\ libratoCounters' = EmptyObject
    /\ UNCHANGED <<config_vars, flushes, lastCall, run, now, loaded, raised,
                   errors, lastSuccess, lastInit, lastConfig, probe_vars>>

\* one 'data' event of the response to request i
Data(i) ==
    /\ ~raised
    /\ requests[i].phase = "response"
    /\ requests[i].chunks > 0
    /\ LET req == requests[i]
           rest == IF req.chunks = 1
                   THEN RemoveAt(requests, i)
                   ELSE [requests EXCEPT ![i].chunks = @ - 1,
                                         ![i].handled = @ + 1]
           r5 == IF StatusClass(req.statusCode) = 5
                 THEN OnData5xx([Heap EXCEPT !.requests = rest], log, req)
                 ELSE [h |-> [Heap EXCEPT !.requests = rest], log |-> log]
           r4 == IF StatusClass(req.statusCode) = 4
                 THEN OnData4xx(r5.h, r5.log, req)
                 ELSE r5
       IN /\ requests' = r4.h.requests
          /\ timers' = r4.h.timers
          /\ libratoStats' = r4.h.libratoStats
          /\ posts' = r4.h.posts
          /\ log' = r4.log
    /\ UNCHANGED <<config_vars, flush_vars, now, loaded, raised, errors,
                   lastSuccess, lastInit, lastConfig, probe_vars>>

\* the 'error' event of request i: no response was received
TransportError(i) ==
    /\ ~raised
    /\ requests[i].phase = "sent"
    /\ LET req == requests[i]
           r == OnError([Heap EXCEPT !.requests = RemoveAt(requests, i)], req)
       IN /\ requests' = r.h.requests
          /\ timers' = r.h.timers
          /\ libratoStats' = r.h.libratoStats
          /\ posts' = r.h.posts
          /\ raised' = r.raised
          /\ errors' = [errors EXCEPT ![req.cycle] = @ + 1]
    /\ UNCHANGED <<config_vars, flush_vars, now, loaded, log,
                   lastSuccess, lastInit, lastConfig, probe_vars>>

\* a second passes; the retry timers that are due run
Tick ==
    /\ ~raised
    /\ now < MaxTime
    /\ LET h == FireTimers([Heap EXCEPT !.now = now + 1, !.timers = <<>>],
                           timers)
       IN /\ now' = now + 1
          /\ requests' = h.requests
          /\ timers' = h.timers
          /\ libratoStats' = h.libratoStats
          /\ posts' = h.posts
    /\ UNCHANGED <<config_vars, flush_vars, loaded, raised, log, errors,
                   lastSuccess, lastInit, lastConfig, probe_vars>>

\* exports.stats = backend_stats, called by the host on a loaded backend when
\* its management console is asked for the stats
CallStats ==
    /\ ~raised
    /\ loaded
    /\ emitted' = [called |-> TRUE, writes |-> backend_stats(libratoStats)]
    /\ UNCHANGED <<config_vars, delivery_vars, flush_vars, now, loaded, raised,
                   log, lastSuccess, lastInit, lastConfig, sanitized>>

\* sanitize_name called on its own with a name, once
Sanitize(name) ==
    /\ ~sanitized.called
    /\ sanitized' = [called |-> TRUE, name |-> name,
                     result |-> sanitize_name(name)]
    /\ UNCHANGED <<config_vars, delivery_vars, flush_vars, now, loaded, raised,
                   log, lastSuccess, lastInit, lastConfig, emitted>>

\* the steps of the program, the host's inputs drawn from the given sets
NextOver(configs, snapshots, statuses, chunkCounts) ==
    \/ \E config \in configs : CallInit(config)
    \/ \E metrics \in snapshots : Flush(metrics)
    \/ \E i \in 1..Len(requests), statusCode \in statuses, n \in chunkCounts :
           Response(i, statusCode, n)
    \/ \E i \in 1..Len(requests) : Data(i)
    \/ \E i \in 1..Len(requests) : TransportError(i)
    \/ Tick

Next == NextOver(Configs, Snapshots, Statuses, 0..MaxChunks)

Spec == Init /\ [][Next]_vars

\* The ledger and the lists of a payload: every combination of counters in a
\* snapshot and both counter modes, set in a nested block, each response a 503
\* with a one-chunk body
LedgerConfigs == {c \in NestedConfigs : Get(c, "debug") = Undefined}
LedgerSnapshots ==
    {m \in Snapshots : \A k \in DOMAIN m.timers : m.timers[k] # <<>>}

LedgerNext == NextOver(LedgerConfigs, LedgerSnapshots, {503}, {1})

SpecLedger == Init /\ [][LedgerNext]_vars

\* The deliveries: one snapshot, every response and every body length
DeliverySnapshots ==
    {m \in LedgerSnapshots : /\ DOMAIN m.counters = {HitsKey}
                             /\ m.counters[HitsKey] = 1}

DeliveryNext == NextOver(Configs, DeliverySnapshots, Statuses, 0..MaxChunks)

SpecDelivery == Init /\ [][DeliveryNext]_vars

\* The timers: the sample lists of two timer keys in a snapshot, the first
\* with at most two samples, in both counter modes
TimerSampleLists == {<<>>, <<1, 2, 3, 4>>, <<0, 5>>}
TimerConfigs == {c \in LedgerConfigs : InitReturns(c) = JsTrue}
TimerSnapshots ==
    [counters : {m.counters : m \in DeliverySnapshots},
     timers : {t \in [Range(TimerKeys) -> TimerSampleLists] :
                  Len(t[TimerKeys[1]]) <= 2},
     gauges : [Range(GaugeKeys) -> GaugeValues]]

TimerNext == NextOver(TimerConfigs, TimerSnapshots, {503}, {1})

SpecTimers == Init /\ [][TimerNext]_vars

\* The names: every short name over one character of each kind, the example
\* of the documentation, and long names that end around the 255th character
NameChars == {"a", "Z", "0", "-", ".", ":", "_", "!", " ", "/"}
TailChars == {"a", "!"}
SeqsUpTo(chars, n) == UNION {[1..k -> chars] : k \in 0..n}
Pad(k) == [i \in 1..k |-> "a"]
ExampleName ==
    <<"m", "y", ".", "m", "e", "t", "r", "i", "c", "!", "n", "a", "m", "e">>
Names ==
    SeqsUpTo(NameChars, MaxShortLen)
        \cup {ExampleName}
        \cup {Pad(k) \o tail : k \in (MaxNameLen - 3)..(MaxNameLen + 1),
                                tail \in SeqsUpTo(TailChars, MaxShortLen)}

SanitizeNext == \E name \in Names : Sanitize(name)

SpecSanitize == Init /\ [][SanitizeNext]_vars

\* The endpoints: no endpoint, and endpoints with and without TLS and with and
\* without a port, in a nested block or under the deprecated key
EndpointApis ==
    {Undefined, "http://localhost:8080", "https://proxy.example.com:8443",
     "http://proxy.example.com"}
EndpointConfigs ==
    {[debug |-> Undefined, flushInterval |-> "10000",
      librato |-> [api |-> a, email |-> "user@example.com",
                   token |-> "apikey", source |-> Undefined,
                   legacyCounters |-> Undefined]] : a \in EndpointApis}
    \cup
    {[debug |-> Undefined, flushInterval |-> "10000", libratoHost |-> a,
      libratoUser |-> "user@example.com", libratoApiKey |-> "apikey",
      libratoSource |-> Undefined] : a \in EndpointApis}

EndpointNext == NextOver(EndpointConfigs, DeliverySnapshots, {503}, {1})

SpecEndpoint == Init /\ [][EndpointNext]_vars

\* The configurations that change: init is called again between the flush
\* calls, with and without credentials and in either counter mode
ReinitConfigs == LedgerConfigs
ReinitNext ==
    \/ NextOver(ReinitConfigs, DeliverySnapshots, {503}, {1})
    \/ \E config \in ReinitConfigs : CallInitAgain(config)

SpecReinit == Init /\ [][ReinitNext]_vars

\* The configurations with the deprecated keys set, with and without a nested
\* block, the block whole or with fields left out
NestedBlocks ==
    {[api |-> "https://proxy.example.com:8443", email |-> "user@example.com",
      token |-> "apikey", source |-> "web", legacyCounters |-> JsTrue],
     [email |-> "user@example.com", token |-> "apikey"],
     [email |-> "user@example.com"],
     [source |-> "web"]}
FlatKeys ==
    [debug |-> Undefined, flushInterval |-> "10000",
     libratoHost |-> "http://localhost:8080",
     libratoUser |-> "flat@example.com", libratoApiKey |-> "flatkey",
     libratoSource |-> "flat"]
ResolveConfigs ==
    {FlatKeys} \cup {Put(FlatKeys, "librato", b) : b \in NestedBlocks}

ResolveNext == NextOver(ResolveConfigs, DeliverySnapshots, {503}, {1})

SpecResolve == Init /\ [][ResolveNext]_vars

\* The stats calls: between the steps of the deliveries of one snapshot, each
\* response a 503 with a one-chunk body
StatsNext ==
    \/ NextOver(LedgerConfigs, DeliverySnapshots, {503}, {1})
    \/ CallStats

SpecStats == Init /\ [][StatsNext]_vars

----------------------------------------------------------------------------
(* What the last flush call published *)

Last(s) == s[Len(s)]

\* the snapshot's counter keys in the order the call visited them
CallKeys == KeysOf(CounterKeys, lastCall.metrics.counters)
IndexOf(k) == CHOOSE i \in 1..Len(CallKeys) : CallKeys[i] = k

\* the record the call pushed for counter key k: the loop over the counters
\* runs first, so it is the record at the key's place in the list
CounterRecordOf(call, k) ==
    call.counters[CHOOSE i \in 1..Len(call.counters) :
                      KeysOf(CounterKeys, call.metrics.counters)[i] = k]
CounterRecord(k) == CounterRecordOf(lastCall, k)
GaugeRecord(k) == lastCall.gauges[IndexOf(k)]

\* the retries of cycle c's payload that are scheduled and not yet sent
PendingRetries(c) == Len(SelectSeq(timers, LAMBDA t : t.cycle = c))

\* a step in which the 'data' handler of request i runs
DataStep(i) ==
    /\ requests[i].phase = "response"
    /\ requests' = IF requests[i].chunks = 1
                   THEN RemoveAt(requests, i)
                   ELSE [requests EXCEPT ![i].chunks = @ - 1,
                                         ![i].handled = @ + 1]

\* a step in which the 'error' handler of request i runs
ErrorStep(i) ==
    /\ requests[i].phase = "sent"
    /\ requests' = RemoveAt(requests, i)
    /\ errors' # errors

\* a step in which the response callback of request i runs and a body follows
ResponseStep(i) ==
    /\ requests[i].phase = "sent"
    /\ Len(requests') = Len(requests)
    /\ requests'[i].phase = "response"

\* a step in which flush is called
FlushStep == flushes' = flushes + 1

----------------------------------------------------------------------------
(* C1: in non-legacy mode, a counter key that is in the snapshot of every     *)
(* call of a run of consecutive flush calls, the run starting with the call   *)
(* that creates its ledger entry, is published in the i-th call with the sum  *)
(* of the deltas of calls 1..i.                                               *)
C1_PublishedIsSumOfRun ==
    (Called /\ ~lastCall.legacy) =>
        \A k \in DOMAIN lastCall.metrics.counters :
            run[k].active => CounterRecord(k).value = run[k].sum

\* the same for the keys other than numStats, the name the backend's own
\* counter of published stats takes in the ledger
C1_OtherKeysSumOfRun ==
    (Called /\ ~lastCall.legacy) =>
        \A k \in DOMAIN lastCall.metrics.counters \ {NumStatsKey} :
            run[k].active => CounterRecord(k).value = run[k].sum

(* C2: in non-legacy mode, a counter key in the snapshot of one flush call    *)
(* and not in the snapshot of the next has no ledger entry once the next call *)
(* returns; and when the key is in the snapshot of a later call, that call    *)
(* publishes it with its own delta alone.                                     *)
C2_AbsentKeyIsPruned ==
    [][(FlushStep /\ Called /\ ~lastCall.legacy /\ ~lastCall'.legacy) =>
          /\ \A k \in DOMAIN lastCall.metrics.counters :
                 k \notin DOMAIN lastCall'.metrics.counters
                     => k \notin DOMAIN libratoCounters'
          /\ \A k \in DOMAIN lastCall'.metrics.counters :
                 run[k].dropped
                     => CounterRecordOf(lastCall', k).value
                            = lastCall'.metrics.counters[k]]_vars

(* C3: a first attempt that receives a 5xx response schedules one retry of    *)
(* the payload, retryDelay seconds later; a retry that receives a 5xx         *)
(* schedules nothing.                                                         *)
C3_RetryAfter5xx ==
    [][\A i \in 1..Len(requests) :
          (DataStep(i) /\ StatusClass(requests[i].statusCode) = 5
                       /\ requests[i].handled = 0) =>
              IF requests[i].attempt = 1
              THEN /\ Len(timers') = Len(timers) + 1
                   /\ Last(timers').due = now + retryDelay
                   /\ Last(timers').cycle = requests[i].cycle
              ELSE timers' = timers]_vars

(* C4: a first attempt that fails with a transport error schedules one retry  *)
(* of the payload; a retry that fails with a transport error or a 5xx is      *)
(* logged as critical and schedules nothing.                                  *)
C4_RetryAfterTransportError ==
    [][\A i \in 1..Len(requests) :
          /\ ErrorStep(i) =>
                IF requests[i].attempt = 1
                THEN /\ Len(timers') = Len(timers) + 1
                     /\ Last(timers').due = now + retryDelay
                     /\ Last(timers').cycle = requests[i].cycle
                     /\ ~raised'
                ELSE timers' = timers /\ "crit" \in log'
          /\ (DataStep(i) /\ StatusClass(requests[i].statusCode) = 5
                          /\ requests[i].attempt > 1) =>
                timers' = timers /\ "crit" \in log']_vars

(* C5: a delivery attempt that receives a 4xx response schedules no retry and *)
(* sends nothing: neither its response callback nor its 'data' handler sets a *)
(* timer or makes a request.                                                  *)
C5_NoRetryAfter4xx ==
    [][\A i \in 1..Len(requests) :
          \/ ResponseStep(i) /\ StatusClass(requests'[i].statusCode) = 4
          \/ DataStep(i) /\ StatusClass(requests[i].statusCode) = 4
          => timers' = timers /\ posts' = posts]_vars

\* a 4xx response's 'data' handler has run, and the payload was sent once and
\* no retry is pending
C5_Witness ==
    \E i \in 1..Len(requests) :
        /\ StatusClass(requests[i].statusCode) = 4
        /\ requests[i].handled > 0
        /\ posts[requests[i].cycle] = 1
        /\ PendingRetries(requests[i].cycle) = 0

(* C6: the payload of a flush call is POSTed at most twice, retries that are  *)
(* scheduled and will be sent included.                                       *)
C6_AtMostTwoAttempts ==
    \A c \in 1..MaxFlushes : posts[c] + PendingRetries(c) <= 2

\* a 5xx response's 'data' handler has run for a payload that was sent
C6_Witness ==
    \E i \in 1..Len(requests) :
        /\ StatusClass(requests[i].statusCode) = 5
        /\ requests[i].handled > 0
        /\ posts[requests[i].cycle] >= 1

(* C7: no callback of a delivery raises an exception into the host's event    *)
(* loop.                                                                      *)
C7_NoExceptionEscapes == ~raised

(* C8: last_flush is the time of the last 2xx/3xx response, and is not set    *)
(* before one.                                                                *)
C8_LastFlushIsLastSuccess == libratoStats = lastSuccess

\* C8 as amended: last_flush is set to the current time whenever a delivery
\* attempt is sent, and by nothing else: no response and no error changes it.
C8_LastFlushIsLastAttempt ==
    [][/\ posts' # posts => libratoStats' = Put(EmptyObject, "last_flush", now')
       /\ posts' = posts => libratoStats' = libratoStats]_vars

\* every delivery so far has ended, none in a 2xx/3xx, and last_flush is set
C8_Witness ==
    /\ flushes > 0
    /\ requests = <<>>
    /\ timers = <<>>
    /\ lastSuccess = EmptyObject
    /\ "last_flush" \in DOMAIN libratoStats

(* C9: in legacy mode every counter key of the snapshot is published with the *)
(* call's raw delta, as a gauge, and no accumulated counter is published.     *)
C9_LegacyPublishesDelta ==
    (Called /\ lastCall.legacy) =>
        /\ lastCall.counters = <<>>
        /\ Len(lastCall.gauges) >= Len(CallKeys)
        /\ \A k \in DOMAIN lastCall.metrics.counters :
               GaugeRecord(k) = [name |-> sanitize_name(k),
                                 value |-> lastCall.metrics.counters[k]]

\* a legacy call whose snapshot has a key that earlier consecutive calls had too
C9_Witness ==
    /\ Called
    /\ lastCall.legacy
    /\ \E k \in DOMAIN lastCall.metrics.counters :
           run[k].active /\ run[k].sum > lastCall.metrics.counters[k]

(* C10: the numStats amount of a flush call is the number of gauge records    *)
(* plus the number of counter records of its payload without the numStats     *)
(* record; legacy mode publishes the amount, non-legacy mode adds it to the   *)
(* numStats ledger entry and publishes the entry's value.                     *)
C10_NumStats ==
    [][FlushStep =>
          LET call == lastCall'
              amount == Len(call.gauges) + Len(call.counters) - 1
              own == IF NumStatsKey \in DOMAIN call.metrics.counters
                     THEN call.metrics.counters[NumStatsKey] ELSE 0
              old == IF NumStatsKey \in DOMAIN libratoCounters
                     THEN libratoCounters[NumStatsKey].value ELSE 0
          IN IF call.legacy
             THEN Last(call.gauges) = [name |-> NumStatsKey, value |-> amount]
             ELSE /\ libratoCounters'[NumStatsKey].value = old + own + amount
                  /\ Last(call.counters) =
                         [name |-> NumStatsKey, value |-> old + own + amount]
      ]_vars

\* a second non-legacy call, its amount added to what the entry held
C10_Witness ==
    /\ Called
    /\ lastCall.cycle = 2
    /\ ~lastCall.legacy
    /\ NumStatsKey \in DOMAIN libratoCounters
    /\ libratoCounters[NumStatsKey].value >
           Len(lastCall.gauges) + Len(lastCall.counters) - 1

(* C11: init returns false exactly when the email or the token of the         *)
(* resolved configuration is absent, and true otherwise; a call that returns  *)
(* false raises no exception and makes no request and sets no timer.          *)
C11_InitReturnsFalseIffIncomplete ==
    [][lastConfig' # lastConfig =>
          /\ lastInit' \in {JsFalse, JsTrue}
          /\ lastInit' = JsFalse <=> (email' = Undefined \/ token' = Undefined)
          /\ lastInit' = JsFalse =>
                 /\ ~raised'
                 /\ requests' = requests
                 /\ timers' = timers
                 /\ posts' = posts]_vars

\* init was given an email and no token, and returned false
C11_Witness ==
    /\ lastInit = JsFalse
    /\ email # Undefined
    /\ token = Undefined
    /\ requests = <<>>
    /\ ~raised

(* C12: after a successful init, before the first flush call too, a stats     *)
(* call invokes writeCb exactly once, with the key last_flush and its current *)
(* value.                                                                     *)
C12_StatsEmitsLastFlush ==
    [][emitted' # emitted =>
          /\ Len(emitted'.writes) = 1
          /\ emitted'.writes[1].stat = "last_flush"
          /\ "last_flush" \in DOMAIN libratoStats
          /\ emitted'.writes[1].value = libratoStats["last_flush"]]_vars

\* the sum of f(x) over the elements x of s
SumOver(s, f(_)) ==
    LET total[i \in 0..Len(s)] == IF i = 0 THEN 0 ELSE total[i - 1] + f(s[i])
    IN total[Len(s)]
Same(x) == x
Square(x) == x * x

\* the timer records of a call's payload, and the timer keys of its snapshot
\* that have samples, both in order
TimerRecords(call) == SelectSeq(call.gauges, LAMBDA g : "count" \in DOMAIN g)
SampledKeys(call) ==
    SelectSeq(KeysOf(TimerKeys, call.metrics.timers),
              LAMBDA k : call.metrics.timers[k] # <<>>)

(* C13: a timer key with no samples produces no record; a timer key with      *)
(* samples produces exactly one record, with count the number of samples, sum *)
(* their sum, sum_squares the sum of their squares, min the smallest and max  *)
(* the largest sample.                                                        *)
C13_TimerRecords ==
    Called =>
        LET recs == TimerRecords(lastCall)
            keys == SampledKeys(lastCall)
        IN /\ Len(recs) = Len(keys)
           /\ \A i \in 1..Len(keys) :
                  LET samples == lastCall.metrics.timers[keys[i]]
                  IN /\ recs[i].name = keys[i]
                     /\ recs[i].count = Len(samples)
                     /\ recs[i].sum = SumOver(samples, Same)
                     /\ recs[i].sum_squares = SumOver(samples, Square)
                     /\ recs[i].min \in Range(samples)
                     /\ recs[i].max \in Range(samples)
                     /\ \A x \in Range(samples) :
                            recs[i].min <= x /\ x <= recs[i].max

\* a call whose snapshot has a timer key with no samples before one with the
\* samples 1, 2, 3, 4, and whose payload has the one record of the latter
C13_Witness ==
    /\ Called
    /\ DOMAIN lastCall.metrics.timers = Range(TimerKeys)
    /\ lastCall.metrics.timers[TimerKeys[1]] = <<>>
    /\ lastCall.metrics.timers[TimerKeys[2]] = <<1, 2, 3, 4>>
    /\ TimerRecords(lastCall) =
           <<[name |-> TimerKeys[2], count |-> 4, sum |-> 10,
              sum_squares |-> 30, min |-> 1, max |-> 4]>>

\* the characters the claim allows in a name
AllowedChars ==
    Lower \cup Upper \cup Digit \cup {"_", ".", ":", "-"}

\* s cut to at most n characters
Prefix(s, n) == SubSeq(s, 1, IF Len(s) < n THEN Len(s) ELSE n)

(* C14: sanitize_name replaces the first contiguous run of characters outside *)
(* [A-Za-z0-9_.:-] with one underscore, leaves every character before and     *)
(* after the run as it is, later runs included, and cuts the result to at     *)
(* most 255 characters.                                                       *)
C14_SanitizeFirstRun ==
    sanitized.called =>
        LET n == sanitized.name
            r == sanitized.result
            bad == {i \in 1..Len(n) : n[i] \notin AllowedChars}
        IN /\ Len(r) <= 255
           /\ IF bad = {}
              THEN r = Prefix(n, 255)
              ELSE \E i \in bad, j \in bad :
                      /\ i <= j
                      /\ \A k \in 1..(i - 1) : k \notin bad
                      /\ \A k \in i..j : k \in bad
                      /\ (j + 1) \notin bad
                      /\ r = Prefix(SubSeq(n, 1, i - 1) \o <<"_">>
                                        \o SubSeq(n, j + 1, Len(n)), 255)

\* a name longer than 255 characters with a run of two invalid characters: the
\* run is replaced by one underscore, the character after it follows the
\* underscore, and the result is cut to 255 characters
C14_Witness ==
    /\ sanitized.called
    /\ Len(sanitized.name) > 255
    /\ Len(sanitized.result) = 255
    /\ \E i \in 1..254 :
           /\ sanitized.name[i] = "!"
           /\ sanitized.name[i + 1] = "!"
           /\ sanitized.name[i + 2] = "a"
           /\ sanitized.result[i] = "_"
           /\ sanitized.result[i + 1] = "a"

(* C15: with no endpoint configured a request goes to the default endpoint    *)
(* over TLS on port 443; an endpoint with the http:// scheme uses the non-TLS *)
(* transport; a port given in the endpoint is used as given; a TLS endpoint   *)
(* without a port gets port 443.                                              *)
C15_TransportAndPort ==
    \A i \in 1..Len(requests) :
        LET r == requests[i]
        IN /\ api = Undefined =>
                  /\ r.proto = "https"
                  /\ r.options.host = "metrics-api.librato.com"
                  /\ r.options.port = "443"
           /\ api \in {"http://localhost:8080", "http://proxy.example.com"} =>
                  r.proto = "http"
           /\ api = "http://localhost:8080" =>
                  r.options.host = "localhost" /\ r.options.port = "8080"
           /\ api = "https://proxy.example.com:8443" =>
                  /\ r.proto = "https"
                  /\ r.options.host = "proxy.example.com"
                  /\ r.options.port = "8443"

\* a request to an http:// endpoint with a port is in flight
C15_Witness ==
    /\ api = "http://localhost:8080"
    /\ \E i \in 1..Len(requests) :
           requests[i].proto = "http" /\ requests[i].options.port = "8080"

\* the snapshot's counter keys of a call, in the order the call visited them
KeysOfCall(call) == KeysOf(CounterKeys, call.metrics.counters)

(* C16: a legacy flush call leaves the ledger unchanged (no entry created,    *)
(* updated or deleted), and emits each snapshot counter, and numStats, as a   *)
(* record {name, value: delta} in the counters list of the payload.           *)
C16_LegacyBypassesLedger ==
    [][(FlushStep /\ lastCall'.legacy) =>
          LET call == lastCall'
              keys == KeysOfCall(call)
          IN /\ libratoCounters' = libratoCounters
             /\ Len(call.counters) = Len(keys) + 1
             /\ \A i \in 1..Len(keys) :
                    call.counters[i] =
                        [name |-> sanitize_name(keys[i]),
                         value |-> call.metrics.counters[keys[i]]]
             /\ Last(call.counters) =
                    [name |-> NumStatsKey, value |-> call.numStats]]_vars

\* C16 as amended: a legacy flush call creates and updates no ledger entry, it
\* deletes the entries whose lastUpdate is not its ts and no other, and it
\* emits each snapshot counter, and numStats, as a record {name, value: delta}
\* in the gauges list of the payload; the counters list is empty.
C16_LegacyPublishesGauges ==
    [][(FlushStep /\ lastCall'.legacy) =>
          LET call == lastCall'
              keys == KeysOfCall(call)
          IN /\ \A k \in DOMAIN libratoCounters' :
                    /\ k \in DOMAIN libratoCounters
                    /\ libratoCounters'[k] = libratoCounters[k]
             /\ \A k \in DOMAIN libratoCounters :
                    k \in DOMAIN libratoCounters'
                        <=> libratoCounters[k].lastUpdate = call.ts
             /\ call.counters = <<>>
             /\ Len(call.gauges) >= Len(keys) + 1
             /\ \A i \in 1..Len(keys) :
                    call.gauges[i] =
                        [name |-> sanitize_name(keys[i]),
                         value |-> call.metrics.counters[keys[i]]]
             /\ Last(call.gauges) =
                    [name |-> NumStatsKey, value |-> call.numStats]]_vars

\* a legacy call made while the ledger holds the entries of a non-legacy call
\* of the same second: they are still there
C16_Witness ==
    /\ Called
    /\ lastCall.legacy
    /\ lastCall.cycle > 1
    /\ lastCall.counters = <<>>
    /\ HitsKey \in DOMAIN libratoCounters
    /\ libratoCounters[HitsKey].lastUpdate = lastCall.ts

(* C17: only the body of flush modifies the ledger: no response callback,     *)
(* 'data' handler, 'error' handler or retry timer callback creates, updates   *)
(* or deletes an entry, and what a flush call makes of the ledger depends on  *)
(* the ledger, the counter mode and the call's arguments alone, whatever      *)
(* deliveries are pending.                                                    *)
C17_LedgerOwnedByFlush ==
    [][IF FlushStep
       THEN libratoCounters' =
                Prune(BuildLists(lastCall'.ts, lastCall'.metrics).ledger,
                      lastCall'.ts)
       ELSE libratoCounters' = libratoCounters]_vars

\* the second flush call has been made and a request of the first is still
\* pending, its 'data' handler having run once: the ledger holds both deltas
C17_Witness ==
    /\ lastCall.cycle = 2
    /\ ~lastCall.legacy
    /\ \E i \in 1..Len(requests) :
           requests[i].cycle = 1 /\ requests[i].handled > 0
    /\ HitsKey \in DOMAIN libratoCounters
    /\ libratoCounters[HitsKey].value = 2

(* C18: an init call that returns false leaves the delivery configuration of  *)
(* an earlier successful init as it was: endpoint, credentials, Authorization *)
(* header, source tag, legacy-counters mode and debug flag.                   *)
C18_FailedInitChangesNothing ==
    [][(loaded /\ lastInit' = JsFalse) =>
          /\ api' = api
          /\ email' = email
          /\ token' = token
          /\ basicAuthHeader' = basicAuthHeader
          /\ sourceName' = sourceName
          /\ legacyCounters' = legacyCounters
          /\ debug' = debug]_vars

\* the part of C18 the code keeps: the Authorization header and the flush
\* interval are not touched by an init call that returns false
C18_FailedInitKeepsHeader ==
    [][(loaded /\ lastInit' = JsFalse) =>
          /\ basicAuthHeader' = basicAuthHeader
          /\ flushInterval' = flushInterval]_vars

C20_LedgerIsSnapshot ==
    (Called /\ ~lastCall.legacy) =>
        LET keys == KeysOfCall(lastCall)
        IN /\ \A k \in DOMAIN libratoCounters :
                  libratoCounters[k].lastUpdate = lastCall.ts
           /\ DOMAIN libratoCounters =
                  DOMAIN lastCall.metrics.counters \cup {NumStatsKey}
           /\ Len(lastCall.counters) = Len(keys) + 1
           /\ \A i \in 1..Len(keys) :
                  lastCall.counters[i].name = sanitize_name(keys[i])
           /\ Last(lastCall.counters).name = NumStatsKey

\* the part of C20 the code keeps: the entries all carry the call's ts, the
\* snapshot's keys and numStats are among them, and the payload's counter
\* records are those of the snapshot's keys and numStats
C20_EntriesStampedRecordsOfSnapshot ==
    (Called /\ ~lastCall.legacy) =>
        LET keys == KeysOfCall(lastCall)
        IN /\ \A k \in DOMAIN libratoCounters :
                  libratoCounters[k].lastUpdate = lastCall.ts
           /\ DOMAIN lastCall.metrics.counters \cup {NumStatsKey}
                  \subseteq DOMAIN libratoCounters
           /\ Len(lastCall.counters) = Len(keys) + 1
           /\ \A i \in 1..Len(keys) :
                  lastCall.counters[i].name = sanitize_name(keys[i])
           /\ Last(lastCall.counters).name = NumStatsKey

====
